---- MODULE Spec2Model ----
(***************************************************************************)
(* TunnelAnimation (src/src/TunnelAnimation.js): the buffered tunnel        *)
(* sections, the requestAnimationFrame loop, the debounced resize listener  *)
(* and disposal.                                                            *)
(*                                                                          *)
(* Numbers.  Lengths, offsets and speeds are fixed-point, in hundredths of  *)
(* a scene unit (length 50 is 5000, speed 0.03 is 3).  Opacities are in     *)
(* hundredths (0.2 is 20).  The configurations are chosen so that           *)
(* length / bufferSize and (i / rings) * length - length / 2 are exact.     *)
(*                                                                          *)
(* Scheduling.  JavaScript runs every handler to completion.  The callbacks *)
(* requestAnimationFrame has queued are `pending`; a display refresh moves  *)
(* them to `batch` and runs them back to back, and the callbacks they       *)
(* request go to the next refresh.  No other handler runs while batch > 0.  *)
(*                                                                          *)
(* Time.  Only armed timeouts observe time: it advances in ticks of TickMs  *)
(* milliseconds while one is armed, saturating at MaxElapsed, and a timeout *)
(* may run at any moment from DebounceMs after it was armed.                *)
(***************************************************************************)
EXTENDS Integers, Sequences, FiniteSets

VARIABLES
    config,          \* this.config
    offsets,         \* section.position.z of this.tunnelSections, in order
    opacity,         \* per section, the opacity of its two materials
    lastWrites,      \* the opacity values the latest frame step assigned
    wrapped,         \* the sections the latest frame step reset
    isAnimating,     \* this.isAnimating
    clockRunning,    \* this.clock.running
    pending,         \* animate callbacks queued for the next display refresh
    batch,           \* callbacks of the current refresh that have not run yet
    stepsInRefresh,  \* frame steps the current (or latest) refresh has run
    rendered,        \* the latest operation called renderer.render
    listeners,       \* the window's 'resize' listeners
    resizeTimeout,   \* this.resizeTimeout: "null", "armed" or "fired"
    disposed,        \* dispose() has run
    disposeCalls,    \* per section and resource, the dispose() calls received
    sceneSections,   \* the sections that are children of this.scene
    deltaTime,       \* this.deltaTime, in milliseconds
    stepsSinceReset, \* per section, the frame steps since it was built or reset
    baseOffset,      \* per section, its offset when it was built or last reset
    timers,          \* the elapsed milliseconds of the armed timeouts, oldest first
    sinceResize,     \* milliseconds since the latest 'resize' event
    runsSinceResize, \* handleResize runs since the latest 'resize' event
    cleared,         \* the latest 'resize' event cleared an armed timeout
    op               \* the operation that ran last

vars == <<config, offsets, opacity, lastWrites, wrapped, isAnimating,
          clockRunning, pending, batch, stepsInRefresh, rendered, listeners,
          resizeTimeout, disposed, disposeCalls, sceneSections, deltaTime,
          stepsSinceReset, baseOffset, timers, sinceResize, runsSinceResize,
          cleared, op>>

\* what only a frame step changes, and what only the resize timer changes
frameVars == <<deltaTime, stepsSinceReset, baseOffset>>
timerVars == <<timers, sinceResize, runsSinceResize, cleared>>

(***************************************************************************)
(* Bounds and program constants                                             *)
(***************************************************************************)
MaxPending == 3
TickMs == 50
MaxElapsed == 150

\* setTimeout(this.handleResize, 100)
DebounceMs == 100

\* the values clock.getDelta() returns
Deltas == {0, 16}

BaseOpacity == 50
OpacityFloor == 20
OpacityCeiling == 70

Lengths == {5000, 3000}
BufferSizes == {1, 2, 3}
Speeds == {700, 1250}
RingCounts == {1, 2}

\* The options main.js passes (length 50, speed 0.03, bufferSize 2), with a
\* small ring count.
ScenarioConfig == [length |-> 5000, bufferSize |-> 2, speed |-> 3, rings |-> 2]

Configs ==
    {c \in [length : Lengths, bufferSize : BufferSizes, speed : Speeds,
            rings : RingCounts] :
        /\ c.length % c.bufferSize = 0
        /\ c.length % (2 * c.rings) = 0}

(***************************************************************************)
(* Arithmetic                                                               *)
(***************************************************************************)
Abs(x) == IF x < 0 THEN -x ELSE x
Min(a, b) == IF a < b THEN a ELSE b
Max(a, b) == IF a > b THEN a ELSE b

\* the integer square root: the largest r with r * r <= n
ISqrt(n) == CHOOSE r \in 0..4000 : r * r <= n /\ n < (r + 1) * (r + 1)

\* Math.pow(x, 1.5), x and the result in hundredths: sqrt(x^3), tabulated
\* over the arguments the model can meet
PowTable == [x \in 0..1000 |-> ISqrt((x * x * x) \div 100)]
PowThreeHalves(x) == PowTable[x]

\* Math.max(0.2, Math.min(0.7, v))
ClampUpperOnly(v) == Min(OpacityCeiling, v)
Clamp(v) == Max(OpacityFloor, Min(OpacityCeiling, v))

\* 1 - Math.pow(distanceFromCamera / (length * 0.7), 1.5), clamped
OpacityAt(d, cfg) ==
    Clamp(100 - PowThreeHalves((1000 * d) \div (7 * cfg.length)))

(***************************************************************************)
(* Construction                                                             *)
(***************************************************************************)
SectionLength(cfg) == cfg.length \div cfg.bufferSize

\* section.position.z = i * (length / bufferSize), i counted from 0
SectionStartWholeLength(i, cfg) == i * cfg.length
SectionStart(i, cfg) == i * SectionLength(cfg)

RECURSIVE BuildSections(_, _, _)
\* the constructor's loop: push one section per i < bufferSize
BuildSections(i, cfg, acc) ==
    IF i < cfg.bufferSize
    THEN BuildSections(i + 1, cfg, Append(acc, SectionStart(i, cfg)))
    ELSE acc

\* ring.position.z = (i / rings) * length - length / 2
RingZUncentred(i, cfg) == (i * cfg.length) \div cfg.rings
RingZ(i, cfg) == (i * cfg.length) \div cfg.rings - cfg.length \div 2

RECURSIVE BuildRings(_, _, _)
BuildRings(i, cfg, acc) ==
    IF i <= cfg.rings
    THEN BuildRings(i + 1, cfg,
             Append(acc, [kind |-> "ring", z |-> RingZ(i, cfg),
                          geometry |-> "ringGeometry",
                          material |-> "ringMaterial"]))
    ELSE acc

\* group.children of one section: the rings, then the line batch
CreateTunnelSectionOneMaterial(cfg) ==
    Append(BuildRings(0, cfg, <<>>),
           [kind |-> "lines", z |-> 0, geometry |-> "lineGeometry",
            material |-> "ringMaterial"])
CreateTunnelSection(cfg) ==
    Append(BuildRings(0, cfg, <<>>),
           [kind |-> "lines", z |-> 0, geometry |-> "lineGeometry",
            material |-> "lineMaterial"])

Materials == {"ringMaterial", "lineMaterial"}
Resources == {"ringGeometry", "ringMaterial", "lineGeometry", "lineMaterial"}

Sections == 1..Len(offsets)

\* the state the constructor leaves
Constructed(cfg) ==
        /\ config = cfg
        /\ offsets = BuildSections(0, cfg, <<>>)
        /\ opacity = [s \in 1..cfg.bufferSize |-> [m \in Materials |-> BaseOpacity]]
        /\ lastWrites = {}
        /\ wrapped = {}
        /\ isAnimating = FALSE
        /\ clockRunning = FALSE
        /\ pending = 0
        /\ batch = 0
        /\ stepsInRefresh = 0
        /\ rendered = FALSE
        /\ listeners = {"debounce"}
        /\ resizeTimeout = "null"
        /\ disposed = FALSE
        /\ disposeCalls = [s \in 1..cfg.bufferSize |-> [r \in Resources |-> 0]]
        /\ sceneSections = 1..cfg.bufferSize
        /\ deltaTime = 0
        /\ stepsSinceReset = [s \in 1..cfg.bufferSize |-> 0]
        /\ baseOffset = BuildSections(0, cfg, <<>>)
        /\ timers = <<>>
        /\ sinceResize = 0
        /\ runsSinceResize = 0
        /\ cleared = FALSE
        /\ op = "construct"

Init == \E cfg \in Configs : Constructed(cfg)

(***************************************************************************)
(* animate: one frame step                                                  *)
(***************************************************************************)
\* -sectionLength * (bufferSize - 1)
WrapTargetOneMore(cfg) == -SectionLength(cfg) * cfg.bufferSize
WrapTarget(cfg) == -SectionLength(cfg) * (cfg.bufferSize - 1)

\* section.position.z > sectionLength
WrapNeeded(z, cfg) == z > SectionLength(cfg)

\* section.position.z += this.config.speed
AdvanceDeltaScaled(z, cfg) == z + cfg.speed * deltaTime'
Advance(z, cfg) == z + cfg.speed

\* the advance, then the reset
StepOffset(z, cfg) ==
    LET advanced == Advance(z, cfg)
    IN  IF WrapNeeded(advanced, cfg) THEN WrapTarget(cfg) ELSE advanced

RECURSIVE WriteOpacities(_, _, _, _, _)
\* section.children.forEach: child k assigns its material's opacity
WriteOpacities(children, k, off, cfg, mats) ==
    IF k > Len(children) THEN mats
    ELSE WriteOpacities(children, k + 1, off, cfg,
             [mats EXCEPT ![children[k].material] =
                  OpacityAt(Abs(children[k].z + off), cfg)])

\* every value the forEach above assigns for one section
SectionWrites(children, off, cfg) ==
    {OpacityAt(Abs(children[k].z + off), cfg) : k \in 1..Len(children)}

\* if (!this.isAnimating) return;
AnimateNeverReturns(running) == FALSE
AnimateReturns(running) == ~running

\* animate(), called with this.isAnimating = running
animate(running) ==
    IF AnimateReturns(running)
    THEN /\ UNCHANGED <<pending, offsets, opacity, lastWrites, wrapped>>
         /\ UNCHANGED frameVars
         /\ rendered' = FALSE
    ELSE LET children == CreateTunnelSection(config)
             next == [s \in Sections |-> StepOffset(offsets[s], config)]
             reset == {s \in Sections :
                          WrapNeeded(Advance(offsets[s], config), config)}
         IN  /\ pending' = pending + 1
             /\ \E d \in Deltas : deltaTime' = d
             /\ offsets' = next
             /\ wrapped' = reset
             /\ stepsSinceReset' =
                    [s \in Sections |->
                        IF s \in reset THEN 0 ELSE stepsSinceReset[s] + 1]
             /\ baseOffset' =
                    [s \in Sections |->
                        IF s \in reset THEN next[s] ELSE baseOffset[s]]
             /\ opacity' = [s \in Sections |->
                               WriteOpacities(children, 1, next[s], config,
                                              opacity[s])]
             /\ lastWrites' = UNION {SectionWrites(children, next[s], config) :
                                        s \in Sections}
             /\ rendered' = TRUE

\* the display refresh hands the queued callbacks to the frame
DisplayRefresh ==
    /\ batch = 0
    /\ pending > 0
    /\ batch' = pending
    /\ pending' = 0
    /\ stepsInRefresh' = 0
    /\ rendered' = FALSE
    /\ op' = "refresh"
    /\ UNCHANGED <<frameVars, timerVars>>
    /\ UNCHANGED <<config, offsets, opacity, lastWrites, wrapped, isAnimating,
                   clockRunning, listeners, resizeTimeout, disposed,
                   disposeCalls, sceneSections>>

\* one queued callback runs animate
Animate ==
    /\ batch > 0
    /\ batch' = batch - 1
    /\ animate(isAnimating)
    /\ stepsInRefresh' =
           IF AnimateReturns(isAnimating) THEN stepsInRefresh
           ELSE stepsInRefresh + 1
    /\ op' = "animate"
    /\ UNCHANGED timerVars
    /\ UNCHANGED <<config, isAnimating, clockRunning, listeners,
                   resizeTimeout, disposed, disposeCalls, sceneSections>>

(***************************************************************************)
(* start, stop                                                              *)
(***************************************************************************)
\* if (!this.isAnimating)
StartAlways == TRUE
StartGuard == ~isAnimating

Start ==
    /\ batch = 0
    /\ ~disposed
    /\ IF StartGuard
       THEN /\ pending < MaxPending
            /\ isAnimating' = TRUE
            /\ clockRunning' = TRUE
            /\ animate(TRUE)
       ELSE /\ UNCHANGED <<isAnimating, clockRunning, pending, offsets,
                           opacity, lastWrites, wrapped>>
            /\ UNCHANGED frameVars
            /\ rendered' = FALSE
    /\ op' = "start"
    /\ UNCHANGED timerVars
    /\ UNCHANGED <<config, batch, stepsInRefresh, listeners, resizeTimeout,
                   disposed, disposeCalls, sceneSections>>

\* this.isAnimating = false
StopFlagToggled == ~isAnimating
StopFlag == FALSE

\* the assignments of stop()
stop ==
    /\ isAnimating' = StopFlag
    /\ clockRunning' = FALSE

Stop ==
    /\ batch = 0
    /\ stop
    /\ rendered' = FALSE
    /\ op' = "stop"
    /\ UNCHANGED <<frameVars, timerVars>>
    /\ UNCHANGED <<config, offsets, opacity, lastWrites, wrapped, pending,
                   batch, stepsInRefresh, listeners, resizeTimeout, disposed,
                   disposeCalls, sceneSections>>

(***************************************************************************)
(* The resize listener                                                      *)
(***************************************************************************)
\* if (this.resizeTimeout) clearTimeout(this.resizeTimeout): the timeout the
\* field names is the newest one, and clearing one that has fired does nothing
ClearTimeoutNoOp(ts) == ts
ClearTimeout(ts) ==
    IF resizeTimeout = "armed" THEN SubSeq(ts, 1, Len(ts) - 1) ELSE ts

\* a 'resize' event reaches the arrow function the constructor registered
ResizeEvent ==
    /\ batch = 0
    /\ "debounce" \in listeners
    /\ timers' = Append(ClearTimeout(timers), 0)
    /\ resizeTimeout' = "armed"
    /\ cleared' = (resizeTimeout = "armed")
    /\ sinceResize' = 0
    /\ runsSinceResize' = 0
    /\ rendered' = FALSE
    /\ op' = "resize"
    /\ UNCHANGED frameVars
    /\ UNCHANGED <<config, offsets, opacity, lastWrites, wrapped, isAnimating,
                   clockRunning, pending, batch, stepsInRefresh, listeners,
                   disposed, disposeCalls, sceneSections>>

\* time passes while a timeout is armed
Tick ==
    /\ batch = 0
    /\ \E k \in 1..Len(timers) : timers[k] < MaxElapsed
    /\ timers' = [k \in 1..Len(timers) |->
                     IF timers[k] + TickMs < MaxElapsed
                     THEN timers[k] + TickMs ELSE MaxElapsed]
    /\ sinceResize' = IF sinceResize + TickMs < MaxElapsed
                      THEN sinceResize + TickMs ELSE MaxElapsed
    /\ rendered' = FALSE
    /\ op' = "tick"
    /\ UNCHANGED <<runsSinceResize, cleared>>
    /\ UNCHANGED frameVars
    /\ UNCHANGED <<config, offsets, opacity, lastWrites, wrapped, isAnimating,
                   clockRunning, pending, batch, stepsInRefresh, listeners,
                   resizeTimeout, disposed, disposeCalls, sceneSections>>

\* a timeout whose 100 ms have elapsed runs handleResize
HandleResize ==
    /\ batch = 0
    /\ \E k \in 1..Len(timers) :
           /\ timers[k] >= DebounceMs
           /\ timers' = SubSeq(timers, 1, k - 1)
                            \o SubSeq(timers, k + 1, Len(timers))
           /\ resizeTimeout' =
                  IF k = Len(timers) /\ resizeTimeout = "armed"
                  THEN "fired" ELSE resizeTimeout
    /\ runsSinceResize' = runsSinceResize + 1
    /\ rendered' = FALSE
    /\ op' = "handleResize"
    /\ UNCHANGED <<sinceResize, cleared>>
    /\ UNCHANGED frameVars
    /\ UNCHANGED <<config, offsets, opacity, lastWrites, wrapped, isAnimating,
                   clockRunning, pending, batch, stepsInRefresh, listeners,
                   disposed, disposeCalls, sceneSections>>

(***************************************************************************)
(* dispose                                                                  *)
(***************************************************************************)
\* window.removeEventListener('resize', this.handleResize)
RemoveResizeListener(ls) == ls \ {"handleResize"}

RECURSIVE Traverse(_, _, _)
\* section.traverse: every child disposes its geometry and its material
Traverse(children, k, counts) ==
    IF k > Len(children) THEN counts
    ELSE LET g == children[k].geometry
             m == children[k].material
             afterG == [counts EXCEPT ![g] = @ + 1]
         IN  Traverse(children, k + 1, [afterG EXCEPT ![m] = @ + 1])

Dispose ==
    /\ batch = 0
    /\ ~disposed
    /\ stop
    /\ listeners' = RemoveResizeListener(listeners)
    /\ sceneSections' = {}
    /\ disposeCalls' = [s \in Sections |->
                           Traverse(CreateTunnelSection(config), 1,
                                    disposeCalls[s])]
    /\ disposed' = TRUE
    /\ rendered' = FALSE
    /\ op' = "dispose"
    /\ UNCHANGED <<frameVars, timerVars>>
    /\ UNCHANGED <<config, offsets, opacity, lastWrites, wrapped, pending,
                   batch, stepsInRefresh, resizeTimeout>>

Next ==
    \/ Start
    \/ Stop
    \/ DisplayRefresh
    \/ Animate
    \/ ResizeEvent
    \/ Tick
    \/ HandleResize
    \/ Dispose

Spec == Init /\ [][Next]_vars

(***************************************************************************)
(* The running loop alone: main.js constructs the tunnel and starts it, and *)
(* the display keeps delivering refreshes.                                  *)
(***************************************************************************)
\* every index a section can have
SectionIndexes == UNION {1..b : b \in BufferSizes}

LiveConfigs == Configs \cup {ScenarioConfig}

LiveInit == \E cfg \in LiveConfigs : Constructed(cfg)

LiveNext ==
    \/ Start
    \/ DisplayRefresh
    \/ Animate

LiveSpec ==
    /\ LiveInit
    /\ [][LiveNext]_vars
    /\ WF_vars(Start)
    /\ WF_vars(DisplayRefresh)
    /\ WF_vars(Animate)

(***************************************************************************)
(* Properties                                                               *)
(***************************************************************************)
\* a frame step (offset advance and render) was the latest operation
FrameStepRan == rendered

\* C1: at most one frame callback is queued at any time, and one display
\* refresh runs the frame step at most once, whatever the interleaving of
\* start(), stop() and refreshes.
C1_SingleLoop ==
    /\ pending + batch <= 1
    /\ stepsInRefresh <= 1

\* C2: a frame callback that fires while the loop is stopped changes no
\* offset and no opacity, renders nothing and requests no further callback.
C2_StoppedCallbackTerminates ==
    [][(op' = "animate" /\ ~isAnimating) =>
          /\ offsets' = offsets
          /\ opacity' = opacity
          /\ lastWrites' = lastWrites
          /\ ~rendered'
          /\ pending' = pending]_vars

C2_Witness ==
    /\ op = "animate"
    /\ ~isAnimating
    /\ ~disposed
    /\ pending = 0
    /\ batch = 0

\* C3: after every frame step every offset lies in
\* [-sectionLength * (bufferSize - 1), sectionLength), so an offset equal to
\* sectionLength after the advance is wrapped in the same step.
C3_OffsetHalfOpen ==
    FrameStepRan =>
        \A s \in Sections :
            /\ offsets[s] >= -(config.length \div config.bufferSize)
                                 * (config.bufferSize - 1)
            /\ offsets[s] < config.length \div config.bufferSize

\* C4: after dispose() every geometry and every material of every section
\* has received exactly one dispose call.
C4_DisposedExactlyOnce ==
    disposed =>
        \A s \in Sections : \A r \in Resources : disposeCalls[s][r] = 1

\* C5: once dispose() has returned, handleResize never runs again.
C5_NoResizeAfterDispose == ~(disposed /\ op = "handleResize")

C7_OpacityClamped ==
    /\ \A v \in lastWrites : 20 <= v /\ v <= 70
    /\ \A s \in Sections : \A m \in Materials :
           20 <= opacity[s][m] /\ opacity[s][m] <= 70

\* a frame step that met distance 0 (ceiling), a far child (floor) and a
\* child in between
C7_Witness ==
    /\ FrameStepRan
    /\ 20 \in lastWrites
    /\ 70 \in lastWrites
    /\ \E v \in lastWrites : 20 < v /\ v < 70
    /\ \E s \in Sections : \E k \in 1..Len(CreateTunnelSection(config)) :
           CreateTunnelSection(config)[k].z + offsets[s] = 0

\* C8: stop() while Stopped, also after dispose(), leaves the loop Stopped
\* and changes no queued callback, offset or opacity.
C8_StopWhileStoppedNoOp ==
    [][(op' = "stop" /\ ~isAnimating) =>
          /\ ~isAnimating'
          /\ UNCHANGED <<clockRunning, pending, batch, offsets, opacity,
                         lastWrites, disposeCalls>>
          /\ ~rendered']_vars

C8_Witness ==
    /\ op = "stop"
    /\ disposed
    /\ ~isAnimating
    /\ ~clockRunning

\* C9: while the loop runs and refreshes keep coming, every section is
\* reset again and again, each time to exactly
\* -sectionLength * (bufferSize - 1); with length 50, bufferSize 2 and
\* speed 0.03 a section at 24.99 is at -25 after the next frame step.
C9_WrapsRecur ==
    /\ \A s \in SectionIndexes :
           []<>(\/ s > Len(offsets)
                \/ /\ s \in wrapped
                   /\ offsets[s] = -(config.length \div config.bufferSize)
                                       * (config.bufferSize - 1))
    /\ [](\A s \in wrapped :
              offsets[s] = -(config.length \div config.bufferSize)
                               * (config.bufferSize - 1))
    /\ [][(config = ScenarioConfig /\ offsets[1] = 2499 /\ rendered') =>
              (offsets'[1] = -2500 /\ 1 \in wrapped')]_vars

C9_Witness ==
    /\ config = ScenarioConfig
    /\ op = "animate"
    /\ 1 \in wrapped
    /\ offsets[1] = -2500

\* C10: construction makes bufferSize sections, section i at
\* i * (length / bufferSize) (0 and 25 for length 50, bufferSize 2), and the
\* number of sections never changes.
C10_SectionsBuilt ==
    /\ Len(offsets) = config.bufferSize
    /\ ~disposed => sceneSections = 1..config.bufferSize
    /\ op = "construct" =>
           \A i \in 0..(config.bufferSize - 1) :
               offsets[i + 1] = i * (config.length \div config.bufferSize)
    /\ (op = "construct" /\ config.length = 5000 /\ config.bufferSize = 2) =>
           offsets = <<0, 2500>>

C10_Witness ==
    /\ op = "construct"
    /\ config.length = 5000
    /\ config.bufferSize = 2
    /\ offsets = <<0, 2500>>
    /\ sceneSections = {1, 2}

\* the ring drawables of a section, in the order they were added
RingsOf(cfg) ==
    SelectSeq(CreateTunnelSection(cfg), LAMBDA c : c.kind = "ring")

\* C11: a section holds rings + 1 ring drawables, ring i at
\* (i / rings) * length - length / 2, each within [-length/2, +length/2].
C11_RingsPlaced ==
    /\ Len(RingsOf(config)) = config.rings + 1
    /\ \A i \in 0..config.rings :
           LET z == RingsOf(config)[i + 1].z
           IN  /\ 2 * config.rings * z
                      = 2 * i * config.length - config.rings * config.length
               /\ -config.length <= 2 * z
               /\ 2 * z <= config.length

C11_Witness ==
    /\ FrameStepRan
    /\ config.rings = 2
    /\ config.length = 5000
    /\ [i \in 1..3 |-> RingsOf(config)[i].z] = <<-2500, 0, 2500>>
    /\ Len(CreateTunnelSection(config)) = 4

\* C12: after every frame step the section offsets are pairwise distinct
\* and exactly sectionLength apart modulo the tunnel length.
C12_SeamlessTiling ==
    FrameStepRan =>
        \A s \in Sections : \A t \in Sections :
            s # t =>
                /\ (offsets[s] - offsets[t]) % config.length # 0
                /\ (offsets[s] - offsets[t])
                       % (config.length \div config.bufferSize) = 0

\* C13: start() changes no section offset and no opacity and submits no
\* render; only a frame step run by the display refresh does.
C13_StartMutatesNothing ==
    [][op' = "start" =>
          /\ offsets' = offsets
          /\ opacity' = opacity
          /\ ~rendered']_vars

\* the opacity drawable k of section s carries: that of its material
ChildOpacity(s, k) == opacity[s][CreateTunnelSection(config)[k].material]

\* C14 as stated: after a frame step all drawables of a section, rings and
\* line batch, carry one opacity, the one computed for the last child.
C14_OneSharedMaterial ==
    FrameStepRan =>
        \A s \in Sections :
            LET n == Len(CreateTunnelSection(config))
                last == CreateTunnelSection(config)[n]
            IN  \A k \in 1..n :
                    ChildOpacity(s, k)
                        = OpacityAt(Abs(last.z + offsets[s]), config)

\* C14 amended: the rings of a section share one material and the line
\* batch has its own, so after a frame step every ring carries the opacity
\* computed for the last ring (at +length/2) and the line batch the opacity
\* computed for itself (at 0).
C14_RingsShareLinesOwn ==
    FrameStepRan =>
        \A s \in Sections :
            LET n == Len(CreateTunnelSection(config))
            IN  /\ \A k \in 1..(n - 1) :
                       ChildOpacity(s, k)
                           = OpacityAt(Abs(config.length \div 2 + offsets[s]),
                                       config)
                /\ ChildOpacity(s, n) = OpacityAt(Abs(offsets[s]), config)

\* a frame step after which the rings and the line batch of a section
\* differ, and the first ring's own value is not the one the rings carry
C14_Witness ==
    /\ FrameStepRan
    /\ \E s \in Sections :
           /\ opacity[s]["ringMaterial"] # opacity[s]["lineMaterial"]
           /\ OpacityAt(Abs(RingsOf(config)[1].z + offsets[s]), config)
                  # opacity[s]["ringMaterial"]

\* C15: every frame step advances each offset by exactly the speed before
\* the wrap test, whatever delta the clock returned, so a section that has
\* taken n frame steps since it was built or reset is at its offset then
\* plus n times the speed.
C15_FixedIncrement ==
    /\ [](\A s \in Sections :
              offsets[s] = baseOffset[s] + stepsSinceReset[s] * config.speed)
    /\ [][rendered' =>
              \A s \in Sections :
                  offsets'[s] =
                      IF offsets[s] + config.speed
                             > config.length \div config.bufferSize
                      THEN -(config.length \div config.bufferSize)
                               * (config.bufferSize - 1)
                      ELSE offsets[s] + config.speed]_vars

C15_Witness ==
    /\ FrameStepRan
    /\ deltaTime = 16
    /\ \E s \in Sections :
           /\ stepsSinceReset[s] >= 3
           /\ offsets[s] = baseOffset[s] + stepsSinceReset[s] * config.speed
           /\ offsets[s] > baseOffset[s]

\* C16: handleResize runs only once 100 ms have passed since the latest
\* resize event, at most one timeout is armed at any time, and each event
\* (so each burst, after its last event) gets exactly one run: none has run
\* while its timeout is armed, one has run once it is not.
C16_Debounced ==
    /\ Len(timers) <= 1
    /\ op = "handleResize" => sinceResize >= 100
    /\ runsSinceResize <= 1
    /\ resizeTimeout # "null" => runsSinceResize + Len(timers) = 1

\* the run that ends a burst: the latest event cleared a timeout that was
\* still armed, and handleResize has run 100 ms after it
C16_Witness ==
    /\ op = "handleResize"
    /\ cleared
    /\ ~disposed
    /\ runsSinceResize = 1
    /\ sinceResize >= 100
    /\ timers = <<>>

====
